---- MODULE Spec2Model ----
(***************************************************************************)
(* Verification model of thelper's geospatial utilities                    *)
(* (thelper/data/geo/utils.py): the affine pixel/geo conversions, the      *)
(* raster metadata parser, the GeoJSON feature parser and the feature      *)
(* ROI / crop calculator.                                                   *)
(*                                                                         *)
(* Numbers.  The code computes in binary floating point.  The model        *)
(* computes in exact rational arithmetic, a rational being a pair          *)
(* <<numerator, denominator>> in lowest terms with a positive denominator. *)
(* The inputs are integers and halves of integers, and the geotransforms   *)
(* drawn have a determinant that is zero or plus/minus a power of two, so  *)
(* that every product and quotient the code forms is representable in      *)
(* binary floating point and the two arithmetics agree.                    *)
(***************************************************************************)
EXTENDS Integers, Sequences, FiniteSets, TLC

VARIABLES
    at,       \* one use of the affine helpers: inputs, position and results
    crop,     \* one call of get_feature_roi: inputs, position and results
    geojson,  \* the caller's feature collection, which parse_geojson updates in place
    pg,       \* the running call of parse_geojson: arguments, locals and position
    disk,     \* the raster dataset stored at each raster path
    files,    \* the reprojection output paths at which a file exists
    writes,   \* per output path, the number of warps that wrote a file there
    clobbered,\* the output paths a warp was started on while a file existed there
    pr,       \* per caller, its call of parse_rasters: arguments, locals and position
    task      \* a Regression task object: its attributes and the last operation on it

rasterVars == <<disk, files, writes, clobbered, pr>>
vars == <<at, crop, geojson, pg, disk, files, writes, clobbered, pr, task>>

\* An optional value: None, or Some(v) holding v.
None == <<>>
Some(v) == <<v>>
Val(o) == o[1]

\* The error field of a result that raised nothing.
NoError == "no error"

(***************************************************************************)
(* Bounds of the model.                                                    *)
(***************************************************************************)
MaxRes == 2       \* pixel sizes range over -MaxRes..MaxRes
MaxPix == 1       \* pixel coordinates range over 0..MaxPix
MaxWin == 2       \* window sizes range over 1..MaxWin
MaxCoord == 2     \* geometry coordinates range over 0..MaxCoord
MaxCrop == 2      \* requested pixel crop sizes range over 0..MaxCrop
MaxFeatures == 2  \* a feature collection holds at most MaxFeatures features
MaxCalls == 2     \* parse_geojson is called at most MaxCalls times on a collection
MaxPaths == 2     \* parse_rasters is given at most MaxPaths raster paths
MaxOffsets == 3   \* get_feature_bbox is given offsets of at most MaxOffsets numbers
MaxDims == 2      \* a shape given to a Regression task has at most MaxDims entries

\* The skews and the origins drawn for a geotransform.
SkewVals == {-1, 0, 1}
Origins == {<<0, 0>>, <<5, -3>>}

(***************************************************************************)
(* Exact rational arithmetic.                                              *)
(***************************************************************************)
Abs(n) == IF n < 0 THEN -n ELSE n

RECURSIVE GCD(_, _)
GCD(a, b) == IF b = 0 THEN a ELSE GCD(b, a % b)

\* n/d in lowest terms with a positive denominator (d # 0).
Rat(n, d) ==
    LET g == GCD(Abs(n), Abs(d))
        s == IF d < 0 THEN -1 ELSE 1
    IN  <<(s * n) \div g, (s * d) \div g>>

R(n) == <<n, 1>>
RAdd(p, q) == Rat(p[1] * q[2] + q[1] * p[2], p[2] * q[2])
RNeg(p) == <<-p[1], p[2]>>
RSub(p, q) == RAdd(p, RNeg(q))
RMul(p, q) == Rat(p[1] * q[1], p[2] * q[2])
RDiv(p, q) == Rat(p[1] * q[2], p[2] * q[1])
RAbs(p) == <<Abs(p[1]), p[2]>>
RLeq(p, q) == p[1] * q[2] <= q[1] * p[2]
RMin(p, q) == IF RLeq(p, q) THEN p ELSE q
RMax(p, q) == IF RLeq(p, q) THEN q ELSE p

\* math.floor and math.ceil, as integers.
Floor(p) == p[1] \div p[2]
Ceil(p) == -((-p[1]) \div p[2])

RECURSIVE IsPow2(_)
IsPow2(n) == n = 1 \/ (n > 1 /\ n % 2 = 0 /\ IsPow2(n \div 2))

(***************************************************************************)
(* Affine transform (get_geocoord, get_pxcoord, get_geoextent).            *)
(* A geotransform is GDAL's <<orig_x, res_x, skew_x, orig_y, skew_y,       *)
(* res_y>>, its entries rationals.  affine.Affine.from_gdal(c,a,b,f,d,e)   *)
(* is the map (x, y) |-> (a*x + b*y + c, d*x + e*y + f).                   *)
(***************************************************************************)
Determinant(gt) == RSub(RMul(gt[2], gt[6]), RMul(gt[3], gt[5]))

\* get_geocoord: the forward map, pixel (x, y) to geo.
get_geocoord(gt, x, y) ==
    << RAdd(RAdd(RMul(gt[2], x), RMul(gt[3], y)), gt[1]),
       RAdd(RAdd(RMul(gt[5], x), RMul(gt[6], y)), gt[4]) >>

\* What get_pxcoord yields when affine raises on inverting a degenerate
\* transform: the error, in place of the pair of coordinates.
NotInvertible == <<"TransformNotInvertibleError">>

get_pxcoord_signslip(gt, x, y) ==
    LET det == Determinant(gt)
    IN  IF det = R(0) THEN NotInvertible
        ELSE << RDiv(RAdd(RMul(gt[6], RSub(x, gt[1])), RMul(gt[3], RSub(y, gt[4]))), det),
                RDiv(RAdd(RMul(gt[5], RSub(x, gt[1])), RMul(gt[2], RSub(y, gt[4]))), det) >>

\* get_pxcoord: the inverse map, geo (x, y) to pixel.  ~Affine has the
\* linear part (e, -b; -d, a) / det and raises when det is zero.
get_pxcoord(gt, x, y) ==
    LET det == Determinant(gt)
    IN  IF det = R(0) THEN NotInvertible
        ELSE << RDiv(RSub(RMul(gt[6], RSub(x, gt[1])), RMul(gt[3], RSub(y, gt[4]))), det),
                RDiv(RSub(RMul(gt[2], RSub(y, gt[4])), RMul(gt[5], RSub(x, gt[1]))), det) >>

get_geoextent_clockwise(gt, x, y, cols, rows) ==
    << get_geocoord(gt, x, y),
       get_geocoord(gt, RAdd(x, cols), y),
       get_geocoord(gt, RAdd(x, cols), RAdd(y, rows)),
       get_geocoord(gt, x, RAdd(y, rows)) >>

\* get_geoextent: the corners of a pixel window, as [tl, bl, br, tr].
get_geoextent(gt, x, y, cols, rows) ==
    << get_geocoord(gt, x, y),
       get_geocoord(gt, x, RAdd(y, rows)),
       get_geocoord(gt, RAdd(x, cols), RAdd(y, rows)),
       get_geocoord(gt, RAdd(x, cols), y) >>

\* The geotransforms drawn as inputs.
Dyadic(q) == q = R(0) \/ (q[2] = 1 /\ IsPow2(Abs(q[1])))

GeoTransforms ==
    { gt \in { << R(o[1]), R(a), R(b), R(o[2]), R(d), R(e) >> :
                 o \in Origins,
                 a \in -MaxRes..MaxRes, e \in -MaxRes..MaxRes,
                 b \in SkewVals, d \in SkewVals } :
      Dyadic(Determinant(gt)) }

(***************************************************************************)
(* Specification SpecAffine: the affine helpers applied to drawn inputs.   *)
(***************************************************************************)
AtIdle == [pc |-> "idle"]
CropIdle == [pc |-> "idle"]
GeojsonIdle == [crs |-> "", has_features |-> FALSE, features |-> <<>>]
PgIdle == [pc |-> "idle"]
TaskIdle == [pc |-> "idle"]
RastersIdle ==
    disk = <<>> /\ files = {} /\ writes = <<>> /\ clobbered = {} /\ pr = <<>>

AtInit ==
    at \in { [pc |-> "start", geotransform |-> gt, x |-> R(x), y |-> R(y),
              cols |-> R(c), rows |-> R(r),
              geo |-> None, px |-> None, extent |-> None] :
             gt \in GeoTransforms, x \in 0..MaxPix, y \in 0..MaxPix,
             c \in 1..MaxWin, r \in 1..MaxWin }

\* geo = get_geocoord(geotransform, x, y)
GetGeocoord ==
    /\ at.pc = "start"
    /\ at' = [at EXCEPT !.pc = "geo",
                        !.geo = get_geocoord(at.geotransform, at.x, at.y)]
    /\ UNCHANGED <<crop, geojson, pg, rasterVars, task>>

\* px = get_pxcoord(geotransform, *geo), which raises on a degenerate transform
GetPxcoord ==
    /\ at.pc = "geo"
    /\ LET res == get_pxcoord(at.geotransform, at.geo[1], at.geo[2])
       IN  at' = [at EXCEPT !.pc = IF res = NotInvertible THEN "raised" ELSE "px",
                            !.px = res]
    /\ UNCHANGED <<crop, geojson, pg, rasterVars, task>>

\* extent = get_geoextent(geotransform, x, y, cols, rows)
GetGeoextent ==
    /\ at.pc = "start"
    /\ at' = [at EXCEPT !.pc = "extent",
                        !.extent = get_geoextent(at.geotransform, at.x, at.y,
                                                 at.cols, at.rows)]
    /\ UNCHANGED <<crop, geojson, pg, rasterVars, task>>

InitAffine == AtInit /\ crop = CropIdle /\ geojson = GeojsonIdle /\ pg = PgIdle /\ RastersIdle /\ task = TaskIdle
NextAffine == GetGeocoord \/ GetPxcoord \/ GetGeoextent
SpecAffine == InitAffine /\ [][NextAffine]_vars

(***************************************************************************)
(* Feature ROI / crop calculator (get_feature_bbox, get_feature_roi).      *)
(* A geometry is an axis-aligned box [minx, miny, maxx, maxy] of integer   *)
(* corners, of zero width or height for a segment or a point, or the       *)
(* empty geometry.  Its bounds are its corners and its centroid its        *)
(* centre.                                                                 *)
(***************************************************************************)
EmptyGeom == [empty |-> TRUE]

Box(minx, miny, maxx, maxy) ==
    [empty |-> FALSE, minx |-> minx, miny |-> miny, maxx |-> maxx, maxy |-> maxy]

Centroid(geom) ==
    << RDiv(RAdd(geom.minx, geom.maxx), R(2)), RDiv(RAdd(geom.miny, geom.maxy), R(2)) >>

\* geom.buffer(r): every side moves outwards by r; a geometry that a
\* non-positive r leaves without area comes out empty.
Buffer(geom, r) ==
    IF geom.empty THEN EmptyGeom
    ELSE LET g == Box(RSub(geom.minx, r), RSub(geom.miny, r),
                      RAdd(geom.maxx, r), RAdd(geom.maxy, r))
         IN  IF RLeq(r, R(0)) /\ (RLeq(g.maxx, g.minx) \/ RLeq(g.maxy, g.miny))
             THEN EmptyGeom ELSE g

\* Errors raised by the calculator.
OffsetError == "AssertionError: offset param must be 2d"
EmptyGeomError == "IndexError: empty geometry"
BothCropsError == "AssertionError: should provide at most one type of crop resolution"

\* Python truthiness of an optional number and of an optional sequence.
Truthy(o) == o # None /\ Val(o) # 0
TruthySeq(o) == o # None /\ Val(o) # <<>>

\* get_feature_bbox: the corners (minx, miny) and (maxx, maxy) of the natural
\* bounds, or of the box of half-widths offsets centred on the centroid; or
\* the error raised.  An empty geometry has no bounds and no centroid to read.
get_feature_bbox(geom, offsets) ==
    IF TruthySeq(offsets) /\ Len(Val(offsets)) # 2 THEN [raised |-> OffsetError]
    ELSE IF geom.empty THEN [raised |-> EmptyGeomError]
    ELSE LET centroid == Centroid(geom)
             roi_tl == IF TruthySeq(offsets)
                       THEN << RSub(centroid[1], Val(offsets)[1]), RAdd(centroid[2], Val(offsets)[2]) >>
                       ELSE << geom.minx, geom.maxy >>
             roi_br == IF TruthySeq(offsets)
                       THEN << RAdd(centroid[1], Val(offsets)[1]), RSub(centroid[2], Val(offsets)[2]) >>
                       ELSE << geom.maxx, geom.miny >>
         IN  [raised |-> NoError,
              tl |-> << RMin(roi_tl[1], roi_br[1]), RMin(roi_tl[2], roi_br[2]) >>,
              br |-> << RMax(roi_tl[1], roi_br[1]), RMax(roi_tl[2], roi_br[2]) >>]

\* Lines 267-275: the half-extents handed to get_feature_bbox, or None.
crop_offsets(gt, crop_img_size, crop_real_size) ==
    IF Truthy(crop_img_size)
    THEN LET off == get_geocoord(gt, R(Val(crop_img_size)), R(Val(crop_img_size)))
         IN  Some(<< RAbs(RDiv(off[1], R(2))), RAbs(RDiv(off[2], R(2))) >>)
    ELSE IF Truthy(crop_real_size)
    THEN Some(<< RDiv(R(Val(crop_real_size)), R(2)), RDiv(R(Val(crop_real_size)), R(2)) >>)
    ELSE None

FloorPx(p) == << Floor(p[1]), Floor(p[2]) >>
CeilPx(p) == << Ceil(p[1]), Ceil(p[2]) >>
Max(a, b) == IF a >= b THEN a ELSE b

br_offsetpx_ceiled(tl_px, br_real, crop_img_size) == CeilPx(br_real)

\* Lines 281-286: the bottom-right pixel, tl + crop for a fixed pixel crop
\* and the ceiled pixel image of the bottom-right corner otherwise.
br_offsetpx(tl_px, br_real, crop_img_size) ==
    IF Truthy(crop_img_size)
    THEN << tl_px[1] + Val(crop_img_size), tl_px[2] + Val(crop_img_size) >>
    ELSE CeilPx(br_real)

crop_extent_unclamped(tl, br, crop_img_size) ==
    IF Truthy(crop_img_size) THEN Val(crop_img_size) ELSE br - tl

\* Lines 282, 287-288: crop_width or crop_height along one axis.
crop_extent(tl, br, crop_img_size) ==
    IF Truthy(crop_img_size) THEN Val(crop_img_size) ELSE Max(br - tl, 1)

\* get_feature_roi.  px_size and skew are pairs and roi_buffer a number or
\* None, as its assertions require.  The result is a record of the values
\* returned (roi, roi_tl, roi_br, crop_width, crop_height) and of the
\* locals the claims speak of, or the error raised.
get_feature_roi(geom, px_size, skew, roi_buffer, crop_img_size, crop_real_size) ==
    IF crop_img_size # None /\ crop_real_size # None THEN [raised |-> BothCropsError]
    ELSE
    LET buffered == IF roi_buffer # None THEN Buffer(geom, R(Val(roi_buffer))) ELSE geom
        offset_geotransform == << R(0), R(px_size[1]), R(skew[1]),
                                  R(0), R(skew[2]), R(px_size[2]) >>
        bbox == get_feature_bbox(buffered,
                    crop_offsets(offset_geotransform, crop_img_size, crop_real_size))
    IN  IF bbox.raised # NoError THEN [raised |-> bbox.raised]
        ELSE IF Determinant(offset_geotransform) = R(0) THEN [raised |-> NotInvertible[1]]
        ELSE
        LET tl_real == get_pxcoord(offset_geotransform, bbox.tl[1], bbox.tl[2])
            br_real == get_pxcoord(offset_geotransform, bbox.br[1], bbox.br[2])
            tl_px == FloorPx(tl_real)
            br_px == br_offsetpx(tl_px, br_real, crop_img_size)
            roi_tl == get_geocoord(offset_geotransform, R(tl_px[1]), R(tl_px[2]))
            roi_br == get_geocoord(offset_geotransform, R(br_px[1]), R(br_px[2]))
        IN  [raised |-> NoError,
             bbox |-> <<bbox.tl, bbox.br>>,
             roi_tl_offsetpx |-> tl_px,
             roi_br_offsetpx |-> br_px,
             roi_br_offsetpx_real |-> br_real,
             roi |-> << roi_tl, <<roi_br[1], roi_tl[2]>>, roi_br, <<roi_tl[1], roi_br[2]>> >>,
             roi_tl |-> roi_tl,
             roi_br |-> roi_br,
             crop_width |-> crop_extent(tl_px[1], br_px[1], crop_img_size),
             crop_height |-> crop_extent(tl_px[2], br_px[2], crop_img_size)]

(***************************************************************************)
(* Specification SpecCrop: get_feature_roi applied to drawn inputs.        *)
(***************************************************************************)
PxSizes == {-2, -1, 1, 2}
CropSkews == {<<0, 0>>, <<1, 0>>, <<0, -1>>, <<1, 1>>}
Buffers == {None, Some(-1), Some(0), Some(1)}
RealCrops == {0, 1, 3}

Geoms ==
    { Box(R(c[1]), R(c[2]), R(c[3]), R(c[4])) :
        c \in { c \in (0..MaxCoord) \X (0..MaxCoord) \X (0..MaxCoord) \X (0..MaxCoord) :
                  c[1] <= c[3] /\ c[2] <= c[4] } }

\* The local transforms drawn: those binary floating point inverts exactly.
CropTransforms ==
    { t \in PxSizes \X PxSizes \X CropSkews :
        Dyadic(Determinant(<< R(0), R(t[1]), R(t[3][1]), R(0), R(t[3][2]), R(t[2]) >>)) }

CropInit ==
    crop \in { [pc |-> "start", geom |-> g, px_size |-> <<t[1], t[2]>>, skew |-> t[3],
                roi_buffer |-> b, crop_img_size |-> cs[1], crop_real_size |-> cs[2],
                out |-> None] :
               g \in Geoms, t \in CropTransforms, b \in Buffers,
               cs \in ({<<None, None>>, <<Some(1), Some(1)>>}
                       \cup {<<Some(n), None>> : n \in 0..MaxCrop}
                       \cup {<<None, Some(r)>> : r \in RealCrops}) }

GetFeatureRoi ==
    /\ crop.pc = "start"
    /\ crop' = [crop EXCEPT !.pc = "done",
                            !.out = get_feature_roi(crop.geom, crop.px_size, crop.skew,
                                        crop.roi_buffer, crop.crop_img_size,
                                        crop.crop_real_size)]
    /\ UNCHANGED <<at, geojson, pg, rasterVars, task>>

InitCrop == CropInit /\ at = AtIdle /\ geojson = GeojsonIdle /\ pg = PgIdle /\ RastersIdle /\ task = TaskIdle
NextCrop == GetFeatureRoi
SpecCrop == InitCrop /\ [][NextCrop]_vars

(***************************************************************************)
(* Specification SpecBbox: get_feature_bbox applied to drawn geometries    *)
(* and offsets, None or a sequence of numbers of any length.               *)
(***************************************************************************)
OffsetVals == {R(0), R(1)}

RECURSIVE OffsetSeqs(_)
OffsetSeqs(n) ==
    IF n = 0 THEN {<<>>}
    ELSE LET shorter == OffsetSeqs(n - 1)
         IN  shorter \cup { Append(q, e) : q \in { r \in shorter : Len(r) = n - 1 },
                                           e \in OffsetVals }

BboxInit ==
    crop \in { [pc |-> "start", geom |-> g, offsets |-> o, out |-> [raised |-> NoError]] :
               g \in Geoms, o \in {None} \cup { Some(q) : q \in OffsetSeqs(MaxOffsets) } }

GetFeatureBbox ==
    /\ crop.pc = "start"
    /\ crop' = [crop EXCEPT !.pc = "done", !.out = get_feature_bbox(crop.geom, crop.offsets)]
    /\ UNCHANGED <<at, geojson, pg, rasterVars, task>>

InitBbox == BboxInit /\ at = AtIdle /\ geojson = GeojsonIdle /\ pg = PgIdle /\ RastersIdle /\ task = TaskIdle
NextBbox == GetFeatureBbox
SpecBbox == InitBbox /\ [][NextBbox]_vars

(***************************************************************************)
(* Vector feature parser (parse_coordinate_system, parse_geojson).         *)
(*                                                                         *)
(* Plane geometry.  A polygon is an axis-aligned box <<x0, y0, x1, y1>>    *)
(* with integer corners, x0 < x1 and y0 < y1; the pieces an intersection   *)
(* leaves may be boxes without width or height (segments, points).  A      *)
(* geometry is a record of its shapely type and the sequence of its        *)
(* parts.  A feature's "geometry" entry is such a record, of kind "dict"   *)
(* while it is the GeoJSON mapping read from the file and of kind          *)
(* "shapely" once parse_geojson has replaced it by a shapely object.       *)
(***************************************************************************)
BoxMeet(a, b) ==
    << Max(a[1], b[1]), Max(a[2], b[2]),
       (IF a[3] <= b[3] THEN a[3] ELSE b[3]), (IF a[4] <= b[4] THEN a[4] ELSE b[4]) >>
BoxNonEmpty(b) == b[1] <= b[3] /\ b[2] <= b[4]
BoxDim(b) == (IF b[1] < b[3] THEN 1 ELSE 0) + (IF b[2] < b[4] THEN 1 ELSE 0)
BoxInside(a, b) == b[1] <= a[1] /\ a[3] <= b[3] /\ b[2] <= a[2] /\ a[4] <= b[4]

\* roi.intersects(geom): the two share a point, boundaries included.
Intersects(roi, parts) == \E i \in 1..Len(parts) : BoxNonEmpty(BoxMeet(roi, parts[i]))

\* roi.contains(geom): no point of geom lies outside roi.
Contains(roi, parts) == Len(parts) > 0 /\ \A i \in 1..Len(parts) : BoxInside(parts[i], roi)

\* The parts of roi.intersection(geom).
IsPiece(b) == BoxNonEmpty(b)
Intersection_unclipped(roi, parts) == parts
Intersection(roi, parts) ==
    SelectSeq([i \in 1..Len(parts) |-> BoxMeet(roi, parts[i])], IsPiece)

\* The shapely type of a geometry made of the given parts.
GeomType(parts) ==
    LET dims == { BoxDim(parts[i]) : i \in 1..Len(parts) }
        many == Len(parts) > 1
    IN  IF dims = {2} THEN (IF many THEN "MultiPolygon" ELSE "Polygon")
        ELSE IF dims = {1} THEN (IF many THEN "MultiLineString" ELSE "LineString")
        ELSE IF dims = {0} THEN (IF many THEN "MultiPoint" ELSE "Point")
        ELSE "GeometryCollection"

\* multipoly.is_valid: the parts of a multipolygon meet at most in points.
IsValid(parts) ==
    \A i, j \in 1..Len(parts) :
        i < j => LET m == BoxMeet(parts[i], parts[j]) IN ~BoxNonEmpty(m) \/ BoxDim(m) = 0

\* ogr_geometry.Transform(srs_transform): the reprojection between the two
\* spatial reference systems of the model, a translation by ReprojShift.
ReprojShift == <<1, 0>>
Reproject(parts) ==
    [i \in 1..Len(parts) |->
        << parts[i][1] + ReprojShift[1], parts[i][2] + ReprojShift[2],
           parts[i][3] + ReprojShift[1], parts[i][4] + ReprojShift[2] >>]

\* parse_coordinate_system: the SRS a collection declares, or the error.
CrsError == "AssertionError: could not identify CRS/SRS type"
KnownCrs == {"EPSG:A", "EPSG:B"}
parse_coordinate_system(crs) == IF crs \in KnownCrs THEN crs ELSE CrsError

\* Errors raised by parse_geojson.
FormatError == "AssertionError: unexpected geojson format"
GeomTypeError == "AssertionError: unhandled raw geometry type"
CoordsError == "AssertionError: unexpected coords embedding"
InvalidMultiError == "AssertionError: found invalid input multipolygon in geojson"
ClipTypeError == "AssertionError: unhandled intersection geometry type"
SubscriptError == "TypeError: geometry object is not subscriptable"

keep_feature_intersecting(roi, allow_outlying, parts) == Intersects(roi, parts)

\* Lines 232-233: whether a feature is kept against a given ROI.
keep_feature(roi, allow_outlying, parts) ==
    \/ (allow_outlying /\ Intersects(roi, parts))
    \/ (~allow_outlying /\ Contains(roi, parts))

\* Lines 205-228: the shapely geometry built from a raw GeoJSON geometry,
\* or the error raised.  A Polygon carries one ring; a MultiPolygon is valid.
parse_geometry(geometry, srs_transform) ==
    IF geometry.kind # "dict" THEN [raised |-> SubscriptError]
    ELSE IF geometry.type \notin {"Polygon", "MultiPolygon"} THEN [raised |-> GeomTypeError]
    ELSE IF geometry.type = "Polygon" /\ geometry.rings # 1 THEN [raised |-> CoordsError]
    ELSE IF geometry.type = "MultiPolygon" /\ ~IsValid(geometry.parts)
         THEN [raised |-> InvalidMultiError]
    ELSE LET parts == IF srs_transform THEN Reproject(geometry.parts) ELSE geometry.parts
         IN  [raised |-> NoError,
              geometry |-> [kind |-> "shapely", type |-> geometry.type, rings |-> 1,
                            parts |-> parts]]

(***************************************************************************)
(* Specification SpecFeatures: calls of parse_geojson on a drawn           *)
(* collection, repeated with the same arguments on the same collection.    *)
(***************************************************************************)
RawGeom(type, parts, rings) == [kind |-> "dict", type |-> type, rings |-> rings, parts |-> parts]
RawFeature(type, parts, rings) == [type |-> "Feature", geometry |-> RawGeom(type, parts, rings)]

\* The ROI of the model and features placed around it.
RoiBox == <<1, 1, 3, 3>>
RawFeatures ==
    { RawFeature("Polygon", <<b>>, 1) :
        b \in { <<1, 1, 2, 2>>,      \* inside the ROI
                <<1, 1, 3, 3>>,      \* the ROI itself
                <<2, 2, 4, 4>>,      \* straddling its boundary
                <<3, 1, 4, 2>>,      \* touching it along an edge
                <<3, 3, 4, 4>>,      \* touching it at a corner
                <<5, 5, 6, 6>>,      \* apart from it
                <<0, 0, 4, 4>> } }   \* containing it
    \cup { RawFeature("MultiPolygon", ps, 1) :
        ps \in { << <<1, 1, 2, 2>>, <<5, 5, 6, 6>> >>,
                 << <<2, 2, 4, 4>>, <<3, 0, 4, 1>> >>,
                 << <<1, 1, 3, 3>>, <<2, 2, 4, 4>> >> } }      \* overlapping parts
    \cup { RawFeature("Polygon", << <<1, 1, 2, 2>> >>, 2),     \* a polygon with a hole
           RawFeature("Point", << <<1, 1, 1, 1>> >>, 1) }

RECURSIVE SeqsUpTo(_, _)
SeqsUpTo(S, n) ==
    IF n = 0 THEN {<<>>}
    ELSE LET shorter == SeqsUpTo(S, n - 1)
         IN  shorter \cup { Append(q, e) : q \in { r \in shorter : Len(r) = n - 1 }, e \in S }

GeojsonInit ==
    geojson \in { [crs |-> c, has_features |-> TRUE, features |-> fs] :
                    c \in {"EPSG:A"}, fs \in SeqsUpTo(RawFeatures, MaxFeatures) }
                \cup { [crs |-> "BOGUS", has_features |-> TRUE,
                        features |-> << RawFeature("Polygon", << <<1, 1, 2, 2>> >>, 1) >>],
                       [crs |-> "EPSG:A", has_features |-> FALSE, features |-> <<>>] }

PgInit ==
    pg \in { [pc |-> "start", calls |-> 0, srs_target |-> t, roi |-> r,
              allow_outlying |-> a, clip_outlying |-> c,
              entry |-> GeojsonIdle, srs_transform |-> FALSE, idx |-> 1,
              kept_features |-> <<>>, raised |-> NoError] :
             t \in {None, Some("EPSG:A"), Some("EPSG:B")}, r \in {None, Some(RoiBox)},
             a \in BOOLEAN, c \in BOOLEAN }

\* Lines 186-203: a call starts; the structure and the CRS are checked and
\* the transform is built.  entry records the collection as the call found it.
PG_Call ==
    /\ pg.pc = "start"
    /\ LET srs_origin == parse_coordinate_system(geojson.crs)
           err == IF ~geojson.has_features THEN FormatError
                  ELSE IF srs_origin = CrsError THEN CrsError ELSE NoError
       IN  pg' = [pg EXCEPT !.pc = IF err = NoError THEN "loop" ELSE "raised",
                            !.calls = @ + 1,
                            !.entry = geojson,
                            !.raised = err,
                            !.srs_transform = pg.srs_target # None
                                              /\ Val(pg.srs_target) # srs_origin,
                            !.idx = 1,
                            !.kept_features = <<>>]
    /\ UNCHANGED <<at, crop, geojson, rasterVars, task>>

\* Lines 204-239: one iteration of the loop over the features.  The feature
\* is updated in place; kept_features collects references to the features
\* kept, here their positions in the collection.
PG_Feature ==
    /\ pg.pc = "loop" /\ pg.idx <= Len(geojson.features)
    /\ LET feature == geojson.features[pg.idx]
           parsed == parse_geometry(feature.geometry, pg.srs_transform)
       IN  IF parsed.raised # NoError
           THEN /\ pg' = [pg EXCEPT !.pc = "raised", !.raised = parsed.raised]
                /\ UNCHANGED geojson
           ELSE LET geom == parsed.geometry
                    kept == pg.roi = None
                            \/ keep_feature(Val(pg.roi), pg.allow_outlying, geom.parts)
                    clipped == IF pg.roi # None /\ kept /\ pg.clip_outlying
                               THEN LET ps == Intersection(Val(pg.roi), geom.parts)
                                    IN  [geom EXCEPT !.parts = ps, !.type = GeomType(ps)]
                               ELSE geom
                    clip_ok == clipped.type \in {"Polygon", "MultiPolygon"}
                IN  /\ geojson' = [geojson EXCEPT !.features[pg.idx] =
                                      [type |-> IF clip_ok THEN clipped.type ELSE geom.type,
                                       geometry |-> clipped]]
                    /\ pg' = IF ~clip_ok
                             THEN [pg EXCEPT !.pc = "raised", !.raised = ClipTypeError]
                             ELSE [pg EXCEPT !.idx = @ + 1,
                                             !.kept_features =
                                                 IF kept THEN Append(@, pg.idx) ELSE @]
    /\ UNCHANGED <<at, crop, rasterVars, task>>

\* Lines 240-241: the loop is over; kept_features is returned.
PG_Return ==
    /\ pg.pc = "loop" /\ pg.idx > Len(geojson.features)
    /\ pg' = [pg EXCEPT !.pc = "returned"]
    /\ UNCHANGED <<at, crop, geojson, rasterVars, task>>

\* The caller calls parse_geojson again on the same collection with the
\* same arguments.
PG_CallAgain ==
    /\ pg.pc \in {"returned", "raised"} /\ pg.calls < MaxCalls
    /\ pg' = [pg EXCEPT !.pc = "start"]
    /\ UNCHANGED <<at, crop, geojson, rasterVars, task>>

InitFeatures == GeojsonInit /\ PgInit /\ at = AtIdle /\ crop = CropIdle /\ RastersIdle /\ task = TaskIdle
NextFeatures == PG_Call \/ PG_Feature \/ PG_Return \/ PG_CallAgain
SpecFeatures == InitFeatures /\ [][NextFeatures]_vars

(***************************************************************************)
(* Raster metadata parser (parse_rasters).                                 *)
(*                                                                         *)
(* A path is the sequence of the pieces of its name, so that               *)
(* "a.tif.reproj.tif" is <<"a.tif", ".reproj.tif">> and the suffix test    *)
(* and the derivation of the output path are what the code computes.  An   *)
(* SRS is named by a string; the caller's srs_target (an EPSG code, an     *)
(* "EPSG:n" string or a SpatialReference, lines 106-114) is the SRS it     *)
(* resolves to, or None.  A dataset is what gdal.Open finds at a path.     *)
(***************************************************************************)
ReprojSuffix == ".reproj.tif"
EndsWithReproj(path) == Len(path) > 0 /\ path[Len(path)] = ReprojSuffix
IsRawPath(path) == ~EndsWithReproj(path)

\* Line 105: the paths left after removing earlier reprojection outputs.
filter_paths(raster_paths) == SelectSeq(raster_paths, IsRawPath)

\* Line 154: the output path of the reprojection of raster_path.
reproj_path_of(raster_path) == Append(raster_path, ReprojSuffix)

\* Lines 131-137.  SpatialReference() is the empty SRS; ImportFromWkt leaves
\* it empty when the text is no WKT of an SRS, as the empty string is.
EmptySRS == ""
UnknownProjection == "LOCAL_CS[unknown]"
ImportFromWkt(wkt) ==
    IF wkt = "PROJCS[A]" THEN "EPSG:A"
    ELSE IF wkt = "PROJCS[B]" THEN "EPSG:B"
    ELSE EmptySRS
ContainsUnknown(wkt) == wkt = UnknownProjection
IsSame(srs_a, srs_b) == srs_a # EmptySRS /\ srs_a = srs_b

\* Errors raised by parse_rasters.
OpenError == "AssertionError: could not open raster data file"
MissingSrsError == "AssertionError: raster did not provide an srs, and no target EPSG srs provided"
InvalidBandError == "AssertionError: found invalid raster band"
MixedBandsError == "AssertionError: expected identical data types in all bands"
TransformError == "RuntimeError: coordinate transformation from an empty SRS"
WarpError == "RuntimeError: gdal.Warp failed"

\* Lines 131-137: the SRS of the raster, or the error raised.
current_srs(projection, srs_target) ==
    IF ~ContainsUnknown(projection)
    THEN [raised |-> NoError, srs |-> ImportFromWkt(projection)]
    ELSE IF srs_target = None THEN [raised |-> MissingSrsError, srs |-> EmptySRS]
    ELSE [raised |-> NoError, srs |-> Val(srs_target)]

\* Lines 139-145: the loop over the bands from band i on, raster_datatype
\* being the type found so far (None before the first band).  A band is
\* Some(its DataType code), or None when GetRasterBand returns None.
RECURSIVE band_loop(_, _, _)
band_loop(bands, i, raster_datatype) ==
    IF i > Len(bands) THEN [raised |-> NoError, raster_datatype |-> raster_datatype]
    ELSE IF bands[i] = None THEN [raised |-> InvalidBandError, raster_datatype |-> raster_datatype]
    ELSE LET datatype == IF ~Truthy(raster_datatype) THEN bands[i] ELSE raster_datatype
         IN  IF datatype # bands[i]
             THEN [raised |-> MixedBandsError, raster_datatype |-> datatype]
             ELSE band_loop(bands, i + 1, datatype)

\* Line 146: the polygon of the extent; lines 149-152: its reprojection,
\* the translation by ReprojShift of every vertex.
ReprojectRing(ring) ==
    [i \in 1..Len(ring) |->
        << RAdd(ring[i][1], R(ReprojShift[1])), RAdd(ring[i][2], R(ReprojShift[2])) >>]

\* Line 155: whether the reprojected raster has still to be written.
warp_always(reproj_path, existing) == TRUE
warp_if_present(reproj_path, existing) == reproj_path \in existing

warp_needed(reproj_path, existing) == reproj_path \notin existing

\* An assertion fails or a collaborator raises: the exception leaves the
\* call.  The frame, and the dataset its local rasterfile refers to, stay
\* referenced by the traceback.
raise_error_skipping(call, err) ==
    [call EXCEPT !.pc = "loop", !.idx = @ + 1, !.rasterfile = None]

raise_error(call, err) == [call EXCEPT !.pc = "raised", !.raised = err]

(***************************************************************************)
(* Specification SpecRasters: one caller calling parse_rasters again and   *)
(* again on the rasters of a drawn disk.                                   *)
(***************************************************************************)
Procs == {1, 2}
Callers == {1}

BasePaths == { <<"a.tif">>, <<"b.tif">> }
OutputPaths == { reproj_path_of(b) : b \in BasePaths }
InputPaths == BasePaths \cup { reproj_path_of(<<"a.tif">>) }
TargetSrs == {None, Some("EPSG:A"), Some("EPSG:B")}

Dataset(openable, projection, bands, gt, cols, rows) ==
    [openable |-> openable, projection |-> projection, bands |-> bands,
     geotransform |-> gt, cols |-> cols, rows |-> rows]

NorthUp == << R(0), R(1), R(0), R(0), R(0), R(-1) >>
Coarse == << R(5), R(2), R(0), R(-3), R(0), R(-2) >>

\* The datasets drawn for a path.  Band type codes are GDAL's: 0 is
\* GDT_Unknown, 1 GDT_Byte, 2 GDT_UInt16.
Datasets ==
    { Dataset(TRUE, "PROJCS[A]", <<Some(1), Some(1)>>, NorthUp, 2, 2),
      Dataset(TRUE, "PROJCS[B]", <<Some(2)>>, Coarse, 1, 2),
      Dataset(TRUE, UnknownProjection, <<Some(1)>>, NorthUp, 2, 1),
      Dataset(TRUE, "", <<Some(1)>>, NorthUp, 1, 1),
      Dataset(TRUE, "PROJCS[A]", <<Some(1), Some(2)>>, NorthUp, 2, 2),
      Dataset(TRUE, "PROJCS[A]", <<Some(0), Some(1)>>, NorthUp, 2, 2),
      Dataset(TRUE, "PROJCS[A]", <<Some(1), None>>, NorthUp, 2, 2),
      Dataset(FALSE, "", <<>>, NorthUp, 0, 0) }

PrIdle ==
    [pc |-> "idle", raster_paths_arg |-> <<>>, raster_paths |-> <<>>,
     srs_target |-> None, reproj |-> FALSE, idx |-> 1, opened |-> <<>>, warped |-> {},
     rasterfile |-> None, raster_curr_srs |-> EmptySRS, raster_datatype |-> None,
     raster_extent |-> <<>>, local_roi |-> <<>>, target_roi |-> <<>>, reproj_path |-> None,
     rasters_data |-> <<>>, target_rois |-> <<>>, result |-> None, raised |-> NoError,
     serialized |-> FALSE]

RastersInit ==
    /\ disk \in [BasePaths -> Datasets]
    /\ files \in SUBSET OutputPaths
    /\ writes = [o \in OutputPaths |-> 0]
    /\ clobbered = {}
    /\ pr = [p \in Procs |-> PrIdle]

Running(p) == pr[p].pc \in {"loop", "reproject", "warp", "append"}

\* Lines 100-116: a call starts, once the caller is done with the outcome
\* of its earlier call.
PR_Call(p) ==
    /\ pr[p].pc = "idle"
    /\ \A q \in Procs : ~Running(q)
    /\ \E paths \in SeqsUpTo(InputPaths, MaxPaths), target \in TargetSrs, reproj \in BOOLEAN :
          pr' = [pr EXCEPT ![p] =
                    [PrIdle EXCEPT !.pc = "loop",
                                   !.raster_paths_arg = paths,
                                   !.raster_paths = filter_paths(paths),
                                   !.srs_target = target,
                                   !.reproj = reproj]]
    /\ UNCHANGED <<at, crop, geojson, pg, task, disk, files, writes, clobbered>>

\* Lines 117-146: the next raster is opened, its metadata read, its SRS
\* determined and its bands validated.
PR_Open(p) ==
    /\ pr[p].pc = "loop" /\ pr[p].idx <= Len(pr[p].raster_paths)
    /\ LET call == pr[p]
           raster_path == call.raster_paths[call.idx]
           rasterfile == disk[raster_path]
           tried == [call EXCEPT !.opened = Append(@, raster_path)]
           held == [tried EXCEPT !.rasterfile = Some(raster_path)]
           srs == current_srs(rasterfile.projection, call.srs_target)
           bands == band_loop(rasterfile.bands, 1, None)
           raster_extent == get_geoextent(rasterfile.geotransform, R(0), R(0),
                                          R(rasterfile.cols), R(rasterfile.rows))
       IN  pr' = [pr EXCEPT ![p] =
                IF ~rasterfile.openable THEN raise_error(tried, OpenError)
                ELSE IF srs.raised # NoError THEN raise_error(held, srs.raised)
                ELSE IF bands.raised # NoError
                     THEN raise_error([held EXCEPT !.raster_curr_srs = srs.srs], bands.raised)
                ELSE [held EXCEPT !.pc = "reproject",
                                  !.raster_curr_srs = srs.srs,
                                  !.raster_datatype = bands.raster_datatype,
                                  !.raster_extent = raster_extent,
                                  !.local_roi = raster_extent]]
    /\ UNCHANGED <<at, crop, geojson, pg, task, disk, files, writes, clobbered>>

\* Lines 147-155 and 161-162: the target ROI, and whether a reprojected
\* raster is to be written.
PR_Reproject(p) ==
    /\ pr[p].pc = "reproject"
    /\ LET call == pr[p]
           raster_path == call.raster_paths[call.idx]
       IN  pr' = [pr EXCEPT ![p] =
                IF call.srs_target # None /\ ~IsSame(call.raster_curr_srs, Val(call.srs_target))
                THEN IF call.raster_curr_srs = EmptySRS
                     THEN raise_error(call, TransformError)
                     ELSE LET moved == [call EXCEPT !.target_roi = ReprojectRing(call.local_roi)]
                          IN  IF call.reproj
                              THEN [moved EXCEPT
                                      !.reproj_path = Some(reproj_path_of(raster_path)),
                                      !.pc = IF warp_needed(reproj_path_of(raster_path), files)
                                             THEN "warp" ELSE "append"]
                              ELSE [moved EXCEPT !.pc = "append"]
                ELSE [call EXCEPT !.target_roi = call.local_roi, !.pc = "append"]]
    /\ UNCHANGED <<at, crop, geojson, pg, task, disk, files, writes, clobbered>>

\* Lines 156-160: gdal.Warp writes the reprojected raster, or fails, with
\* or without leaving a file at the output path.  A failed warp returns
\* None, which line 157 does not look at, so that the call goes on to
\* append the record; it raises only in a process where GDAL's exceptions
\* have been switched on.  The fields opened and warped of a call record
\* the paths it has opened and warped.
PR_Warp(p) ==
    /\ pr[p].pc = "warp"
    /\ LET path == Val(pr[p].reproj_path)
       IN  /\ clobbered' = IF path \in files THEN clobbered \cup {path} ELSE clobbered
           /\ \E outcome \in {"written", "failed", "failed leaving a file"},
                 use_exceptions \in BOOLEAN :
                /\ outcome = "written" => ~use_exceptions
                /\ files' = IF outcome = "failed" THEN files ELSE files \cup {path}
                /\ writes' = IF outcome = "failed" THEN writes
                             ELSE [writes EXCEPT ![path] = @ + 1]
                /\ pr' = [pr EXCEPT ![p] =
                            LET call == [pr[p] EXCEPT !.warped = @ \cup {path}]
                            IN  IF outcome # "written" /\ use_exceptions
                                THEN raise_error(call, WarpError)
                                ELSE [call EXCEPT !.pc = "append"]]
    /\ UNCHANGED <<at, crop, geojson, pg, task, disk>>

\* Lines 163-180: the record is appended and the dataset closed.  The locals
\* the next iteration assigns before it reads them are cleared.
PR_Append(p) ==
    /\ pr[p].pc = "append"
    /\ LET call == pr[p]
           raster_path == call.raster_paths[call.idx]
           rasterfile == disk[raster_path]
           gt == rasterfile.geotransform
           record ==
               [srs |-> call.raster_curr_srs,
                geotransform |-> gt,
                offset_geotransform |-> << R(0), gt[2], gt[3], R(0), gt[5], gt[6] >>,
                extent |-> call.raster_extent,
                skew |-> << gt[3], gt[5] >>,
                resolution |-> << gt[2], gt[6] >>,
                band_count |-> Len(rasterfile.bands),
                cols |-> rasterfile.cols,
                rows |-> rasterfile.rows,
                data_type |-> call.raster_datatype,
                local_roi |-> call.local_roi,
                target_roi |-> call.target_roi,
                file_path |-> raster_path,
                reproj_path |-> call.reproj_path]
       IN  pr' = [pr EXCEPT ![p] =
                [call EXCEPT !.pc = "loop", !.idx = @ + 1,
                             !.target_rois = Append(@, call.target_roi),
                             !.rasters_data = Append(@, record),
                             !.rasterfile = None,
                             !.raster_curr_srs = EmptySRS, !.raster_datatype = None,
                             !.raster_extent = <<>>, !.local_roi = <<>>,
                             !.target_roi = <<>>, !.reproj_path = None]]
    /\ UNCHANGED <<at, crop, geojson, pg, task, disk, files, writes, clobbered>>

\* Lines 181-182: the records and the coverage, the union of the target
\* ROIs (here the set of the polygons united), are returned.
PR_Return(p) ==
    /\ pr[p].pc = "loop" /\ pr[p].idx > Len(pr[p].raster_paths)
    /\ LET call == pr[p]
           target_coverage == { call.target_rois[i] : i \in 1..Len(call.target_rois) }
       IN  pr' = [pr EXCEPT ![p] =
                [call EXCEPT !.pc = "returned",
                             !.result = Some(<< call.rasters_data, target_coverage >>)]]
    /\ UNCHANGED <<at, crop, geojson, pg, task, disk, files, writes, clobbered>>

\* The caller is done with the outcome of the call: the value returned, or
\* the exception, whose traceback held the frame of the call and with it
\* the dataset that rasterfile referred to.  Whether the caller serializes
\* its calls (field serialized) is the caller's and stays.
PR_Release(p) ==
    /\ pr[p].pc \in {"returned", "raised"}
    /\ pr' = [pr EXCEPT ![p] = [PrIdle EXCEPT !.serialized = pr[p].serialized]]
    /\ UNCHANGED <<at, crop, geojson, pg, task, disk, files, writes, clobbered>>

InitRasters ==
    RastersInit /\ at = AtIdle /\ crop = CropIdle /\ geojson = GeojsonIdle /\ pg = PgIdle /\ task = TaskIdle
NextRasters ==
    \E p \in Callers :
        \/ PR_Call(p) \/ PR_Open(p) \/ PR_Reproject(p) \/ PR_Warp(p)
        \/ PR_Append(p) \/ PR_Return(p) \/ PR_Release(p)
SpecRasters == InitRasters /\ [][NextRasters]_vars

(***************************************************************************)
(* Specification SpecConcurrent: two callers calling parse_rasters at the  *)
(* same time, for good rasters.  The callers either both serialize their   *)
(* calls per output path (a caller that serializes holds, for the time of  *)
(* its call, a lock keyed by each raster path it passes), or neither does. *)
(***************************************************************************)
ConcurrentDatasets ==
    { Dataset(TRUE, "PROJCS[A]", <<Some(1), Some(1)>>, NorthUp, 2, 2),
      Dataset(TRUE, "PROJCS[B]", <<Some(2)>>, Coarse, 1, 2) }
ConcurrentPaths == { << <<"a.tif">> >>, << <<"b.tif">> >> }

PathsOf(call) == { call.raster_paths[i] : i \in 1..Len(call.raster_paths) }

\* Lines 100-116, for a caller that runs beside another: a caller that
\* serializes waits while a running call has one of its raster paths.
PR_CallConcurrent(p) ==
    /\ pr[p].pc = "idle"
    /\ \E paths \in ConcurrentPaths, target \in TargetSrs, reproj \in BOOLEAN :
          LET call == [PrIdle EXCEPT !.pc = "loop",
                                     !.serialized = pr[p].serialized,
                                     !.raster_paths_arg = paths,
                                     !.raster_paths = filter_paths(paths),
                                     !.srs_target = target,
                                     !.reproj = reproj]
          IN  /\ pr[p].serialized =>
                    \A q \in Procs \ {p} : Running(q) => PathsOf(pr[q]) \cap PathsOf(call) = {}
              /\ pr' = [pr EXCEPT ![p] = call]
    /\ UNCHANGED <<at, crop, geojson, pg, task, disk, files, writes, clobbered>>

InitConcurrent ==
    /\ disk \in [BasePaths -> ConcurrentDatasets]
    /\ files \in SUBSET OutputPaths
    /\ writes = [o \in OutputPaths |-> 0]
    /\ clobbered = {}
    /\ \E serialized \in BOOLEAN : pr = [p \in Procs |-> [PrIdle EXCEPT !.serialized = serialized]]
    /\ at = AtIdle /\ crop = CropIdle /\ geojson = GeojsonIdle /\ pg = PgIdle /\ task = TaskIdle
NextConcurrent ==
    \E p \in Procs :
        \/ PR_CallConcurrent(p) \/ PR_Open(p) \/ PR_Reproject(p) \/ PR_Warp(p)
        \/ PR_Append(p) \/ PR_Return(p) \/ PR_Release(p)
SpecConcurrent == InitConcurrent /\ [][NextConcurrent]_vars

(***************************************************************************)
(* Regression task (thelper.tasks.regr.Regression): its shape attributes.  *)
(*                                                                         *)
(* A Python value given as a shape is a record of its kind ("none",        *)
(* "list", "tuple", or "str" for a value that is neither) and its items;   *)
(* an item is a pair of its type and its number.  An attribute that has    *)
(* not been assigned yet is of kind "unset".                               *)
(***************************************************************************)
PyNone == [kind |-> "none", items |-> <<>>]
PyUnset == [kind |-> "unset", items |-> <<>>]
PyList(items) == [kind |-> "list", items |-> items]
PyTuple(items) == [kind |-> "tuple", items |-> items]
PyStr == [kind |-> "str", items |-> <<>>]

ShapeTypeError == "AssertionError: unexpected shape type (should be tuple of integers)"
AttributeError == "AttributeError: 'Regression' object has no attribute '_target_shape'"
NotIterableError == "TypeError: 'NoneType' object is not iterable"

\* isinstance(shape, tuple) and all([isinstance(v, int) for v in shape])
IsIntTuple(value) ==
    value.kind = "tuple" /\ \A i \in 1..Len(value.items) : value.items[i][1] = "int"

\* Lines 68-76: the input_shape setter; the value stored, or the error.
input_shape_setter(input_shape) ==
    IF input_shape.kind = "none" THEN [raised |-> NoError, stored |-> input_shape]
    ELSE LET shape == IF input_shape.kind = "list" THEN PyTuple(input_shape.items)
                      ELSE input_shape
         IN  IF IsIntTuple(shape) THEN [raised |-> NoError, stored |-> shape]
             ELSE [raised |-> ShapeTypeError, stored |-> shape]

\* Lines 83-91: the target_shape setter of an object whose _target_shape
\* is current.  For a list, line 88 reads the property self.target_shape.
target_shape_setter(current, target_shape) ==
    IF target_shape.kind = "none" THEN [raised |-> NoError, stored |-> target_shape]
    ELSE IF target_shape.kind = "list" /\ current.kind = "unset"
    THEN [raised |-> AttributeError, stored |-> current]
    ELSE IF target_shape.kind = "list" /\ current.kind = "none"
    THEN [raised |-> NotIterableError, stored |-> current]
    ELSE LET shape == IF target_shape.kind = "list" THEN PyTuple(current.items)
                      ELSE target_shape
         IN  IF IsIntTuple(shape) THEN [raised |-> NoError, stored |-> shape]
             ELSE [raised |-> ShapeTypeError, stored |-> shape]

(***************************************************************************)
(* Specification SpecRegression: a Regression task is constructed, and its *)
(* shapes are assigned again and again.                                    *)
(***************************************************************************)
ShapeItems == { <<"int", 1>>, <<"int", 2>>, <<"float", 1>> }

RECURSIVE ItemSeqs(_)
ItemSeqs(n) ==
    IF n = 0 THEN {<<>>}
    ELSE LET shorter == ItemSeqs(n - 1)
         IN  shorter \cup { Append(q, e) : q \in { r \in shorter : Len(r) = n - 1 },
                                           e \in ShapeItems }

ShapeValues ==
    {PyNone, PyStr} \cup { PyList(q) : q \in ItemSeqs(MaxDims) }
                    \cup { PyTuple(q) : q \in ItemSeqs(MaxDims) }

TaskNew ==
    [pc |-> "new", input_shape |-> PyUnset, target_shape |-> PyUnset,
     op |-> "none", arg |-> PyNone, raised |-> NoError]

\* Lines 41-61: the constructor, with target_type, target_min and
\* target_max left None.  When a setter raises, no object is made.  The
\* fields op and arg name the last assignment made and its value.
Regression_init ==
    /\ task.pc = "new"
    /\ \E input_shape \in ShapeValues, target_shape \in ShapeValues :
          LET first == input_shape_setter(input_shape)
              second == target_shape_setter(PyUnset, target_shape)
          IN  task' =
                IF first.raised # NoError
                THEN [task EXCEPT !.pc = "failed", !.op = "input_shape", !.arg = input_shape,
                                  !.raised = first.raised]
                ELSE IF second.raised # NoError
                THEN [task EXCEPT !.pc = "failed", !.op = "target_shape", !.arg = target_shape,
                                  !.raised = second.raised,
                                  !.input_shape = first.stored]
                ELSE [task EXCEPT !.pc = "ready", !.op = "target_shape", !.arg = target_shape,
                                  !.raised = NoError,
                                  !.input_shape = first.stored,
                                  !.target_shape = second.stored]
    /\ UNCHANGED <<at, crop, geojson, pg, rasterVars>>

\* Lines 68-76: task.input_shape = value.
SetInputShape ==
    /\ task.pc = "ready"
    /\ \E value \in ShapeValues :
          LET set == input_shape_setter(value)
          IN  task' = [task EXCEPT !.op = "input_shape", !.arg = value,
                                   !.raised = set.raised,
                                   !.input_shape = IF set.raised = NoError THEN set.stored ELSE @]
    /\ UNCHANGED <<at, crop, geojson, pg, rasterVars>>

\* Lines 83-91: task.target_shape = value.
SetTargetShape ==
    /\ task.pc = "ready"
    /\ \E value \in ShapeValues :
          LET set == target_shape_setter(task.target_shape, value)
          IN  task' = [task EXCEPT !.op = "target_shape", !.arg = value,
                                   !.raised = set.raised,
                                   !.target_shape = IF set.raised = NoError THEN set.stored ELSE @]
    /\ UNCHANGED <<at, crop, geojson, pg, rasterVars>>

InitRegression ==
    /\ task = TaskNew
    /\ at = AtIdle /\ crop = CropIdle /\ geojson = GeojsonIdle /\ pg = PgIdle /\ RastersIdle
NextRegression == Regression_init \/ SetInputShape \/ SetTargetShape
SpecRegression == InitRegression /\ [][NextRegression]_vars

(***************************************************************************)
(* Claims about the affine helpers, checked under SpecAffine.              *)
(***************************************************************************)
ResNonzero(gt) == gt[2] # R(0) /\ gt[6] # R(0)
AtRoundTripDone == at.pc \in {"px", "raised"}

\* C4 as stated: for every geotransform with nonzero resolution, any skew
\* and any origin, get_pxcoord(gt, get_geocoord(gt, c, r)) returns (c, r).
C4_Original ==
    (AtRoundTripDone /\ ResNonzero(at.geotransform))
        => (at.pc = "px" /\ at.px = <<at.x, at.y>>)

\* C4 amended: the round trip returns (c, r) exactly for every geotransform
\* whose determinant res_x*res_y - skew_x*skew_y is nonzero, and get_pxcoord
\* raises (returns nothing) when the determinant is zero, which a skewed
\* transform of nonzero resolution can have.
C4_RoundTrip ==
    AtRoundTripDone =>
        IF Determinant(at.geotransform) # R(0)
        THEN at.pc = "px" /\ at.px = <<at.x, at.y>>
        ELSE at.pc = "raised" /\ at.px = NotInvertible

C4_Witness ==
    /\ at.pc = "px"
    /\ at.x # at.y
    /\ at.geotransform[3] # R(0) /\ at.geotransform[5] # R(0)
    /\ RLeq(at.geotransform[6], R(-1))
    /\ at.px = <<at.x, at.y>>

IsUnitWindow == at.cols = R(1) /\ at.rows = R(1)

\* The forward images of the corners (col,row), (col,row+1), (col+1,row+1),
\* (col+1,row) of the unit pixel, written out from the six parameters.
UnitCornerImages(gt, c, r) ==
    LET tl == << RAdd(gt[1], RAdd(RMul(c, gt[2]), RMul(r, gt[3]))),
                 RAdd(gt[4], RAdd(RMul(c, gt[5]), RMul(r, gt[6]))) >>
    IN  << tl,
           << RAdd(tl[1], gt[3]), RAdd(tl[2], gt[6]) >>,
           << RAdd(tl[1], RAdd(gt[2], gt[3])), RAdd(tl[2], RAdd(gt[5], gt[6])) >>,
           << RAdd(tl[1], gt[2]), RAdd(tl[2], gt[5]) >> >>

PairwiseDistinct(s) == \A i, j \in 1..Len(s) : i # j => s[i] # s[j]

\* C5 as stated: on a unit window, for every geotransform with nonzero
\* res_x and res_y, the extent is the images of the four pixel corners in
\* tl, bl, br, tr order and the four points are pairwise distinct.
C5_Original ==
    (at.pc = "extent" /\ IsUnitWindow /\ ResNonzero(at.geotransform))
        => /\ at.extent = UnitCornerImages(at.geotransform, at.x, at.y)
           /\ PairwiseDistinct(at.extent)

\* C5 amended: on a unit window, for every geotransform with nonzero res_x
\* and res_y, the extent is the images of the four pixel corners in tl, bl,
\* br, tr order; the four points are pairwise distinct exactly when
\* (skew_x, skew_y) is neither (res_x, res_y) nor (-res_x, -res_y), hence
\* for every invertible geotransform.
SkewMirrorsRes(gt) ==
    \/ (gt[3] = gt[2] /\ gt[5] = gt[6])
    \/ (gt[3] = RNeg(gt[2]) /\ gt[5] = RNeg(gt[6]))

C5_ExtentOrder ==
    (at.pc = "extent" /\ IsUnitWindow /\ ResNonzero(at.geotransform))
        => /\ at.extent = UnitCornerImages(at.geotransform, at.x, at.y)
           /\ PairwiseDistinct(at.extent) <=> ~SkewMirrorsRes(at.geotransform)
           /\ Determinant(at.geotransform) # R(0) => PairwiseDistinct(at.extent)

C5_Witness ==
    /\ at.pc = "extent" /\ IsUnitWindow
    /\ RLeq(at.geotransform[6], R(-1)) /\ RLeq(R(1), at.geotransform[2])
    /\ at.geotransform[3] # R(0)
    /\ at.x # R(0) /\ at.y # R(0)
    /\ PairwiseDistinct(at.extent)

(***************************************************************************)
(* Claims about the crop calculator, checked under SpecCrop.               *)
(***************************************************************************)
CropDone == crop.pc = "done"
CropReturned == CropDone /\ crop.out.raised = NoError
FixedPixelCrop == crop.crop_img_size # None /\ Val(crop.crop_img_size) >= 1
                  /\ crop.crop_real_size = None
NoPixelCrop == ~Truthy(crop.crop_img_size) /\ ~(crop.crop_img_size # None /\ crop.crop_real_size # None)
CropPxNonzero == crop.px_size[1] # 0 /\ crop.px_size[2] # 0
CropDet == crop.px_size[1] * crop.px_size[2] - crop.skew[1] * crop.skew[2]
\* The geometry after the optional buffering is empty: a buffer of zero or
\* less that leaves the geometry no width or no height.
CropGeomEmptied ==
    /\ crop.roi_buffer # None /\ Val(crop.roi_buffer) <= 0
    /\ \/ RLeq(RAdd(RSub(crop.geom.maxx, crop.geom.minx), R(2 * Val(crop.roi_buffer))), R(0))
       \/ RLeq(RAdd(RSub(crop.geom.maxy, crop.geom.miny), R(2 * Val(crop.roi_buffer))), R(0))

\* The call returns unless the local transform is not invertible or the
\* buffered geometry is empty, and then it raises.
CropReturnsUnlessDegenerate == CropReturned <=> (CropDet # 0 /\ ~CropGeomEmptied)

C2_Sized ==
    LET n == Val(crop.crop_img_size)
        tl == crop.out.roi_tl_offsetpx
    IN  /\ crop.out.crop_width = n /\ crop.out.crop_height = n
        /\ crop.out.roi_br_offsetpx = << tl[1] + n, tl[2] + n >>
        /\ crop.out.roi_br = << R(crop.px_size[1] * (tl[1] + n) + crop.skew[1] * (tl[2] + n)),
                                R(crop.skew[2] * (tl[1] + n) + crop.px_size[2] * (tl[2] + n)) >>

\* C2 as stated: with a fixed pixel crop N >= 1 (and no real crop) the call
\* always returns, with crop_width = crop_height = N and the bottom-right
\* pixel at the top-left pixel plus (N, N), for every geometry, every
\* buffer and every nonzero pixel size.
C2_Original ==
    (CropDone /\ FixedPixelCrop /\ CropPxNonzero) => (CropReturned /\ C2_Sized)

\* C2: with a fixed pixel crop N >= 1 (and no real crop) and nonzero pixel
\* sizes of either sign, the call returns exactly when the local transform
\* is invertible (res_x * res_y # skew_x * skew_y) and the buffered
\* geometry is not empty, and raises otherwise; every crop window returned
\* has crop_width = crop_height = N and its bottom-right pixel is the
\* top-left pixel plus (N, N), whatever the geometry and the buffer.
C2_FixedCrop ==
    (CropDone /\ FixedPixelCrop /\ CropPxNonzero) =>
        /\ CropReturnsUnlessDegenerate
        /\ CropReturned => C2_Sized

C2_Witness ==
    /\ CropReturned /\ FixedPixelCrop
    /\ Val(crop.crop_img_size) = 2
    /\ crop.px_size[2] < 0 /\ crop.skew # <<0, 0>>
    /\ crop.roi_buffer = Some(1)
    /\ RSub(crop.geom.maxx, crop.geom.minx) # RSub(crop.geom.maxy, crop.geom.miny)
    /\ crop.out.crop_width = 2 /\ crop.out.crop_height = 2
    /\ crop.out.roi_br_offsetpx # CeilPx(crop.out.roi_br_offsetpx_real)

C3_Clamped ==
    LET dx == crop.out.roi_br_offsetpx[1] - crop.out.roi_tl_offsetpx[1]
        dy == crop.out.roi_br_offsetpx[2] - crop.out.roi_tl_offsetpx[2]
    IN  /\ crop.out.roi_br_offsetpx = CeilPx(crop.out.roi_br_offsetpx_real)
        /\ crop.out.crop_width >= 1 /\ crop.out.crop_height >= 1
        /\ crop.out.crop_width = (IF dx >= 1 THEN dx ELSE 1)
        /\ crop.out.crop_height = (IF dy >= 1 THEN dy ELSE 1)

\* C3 as stated: without a fixed pixel crop the call rejects no input: for
\* every geometry, a zero-area one included, and every nonzero pixel size
\* it returns crop_width and crop_height equal to the pixel deltas between
\* the ceiled bottom-right and the floored top-left pixel, raised to 1.
C3_Original ==
    (CropDone /\ NoPixelCrop /\ CropPxNonzero) => (CropReturned /\ C3_Clamped)

\* C3: without a fixed pixel crop and with nonzero pixel sizes of either
\* sign, the call returns exactly when the local transform is invertible
\* and the buffered geometry is not empty, and raises otherwise; every
\* crop window returned has its bottom-right pixel at the ceiled pixel
\* image of the bottom-right corner, and crop_width, crop_height equal to
\* the pixel deltas to the floored top-left pixel, each raised to 1 when
\* smaller.  A zero-area geometry that is not buffered, or is buffered by
\* more than zero, is returned a window of at least 1 x 1.
C3_ClampedCrop ==
    (CropDone /\ NoPixelCrop /\ CropPxNonzero) =>
        /\ CropReturnsUnlessDegenerate
        /\ CropReturned => C3_Clamped

C3_Witness ==
    /\ CropReturned /\ NoPixelCrop
    /\ crop.geom.minx = crop.geom.maxx /\ crop.geom.miny = crop.geom.maxy
    /\ crop.roi_buffer = None /\ crop.crop_real_size = None
    /\ crop.px_size[2] < 0
    /\ crop.out.roi_br_offsetpx[2] - crop.out.roi_tl_offsetpx[2] < 1
    /\ crop.out.crop_width = 1 /\ crop.out.crop_height = 1

(***************************************************************************)
(* Claims about the feature parser, checked under SpecFeatures.            *)
(***************************************************************************)
\* The geometry of feature i as the running call found it, in the target
\* SRS: its parts, moved when the target SRS differs from the declared one.
C1_Parts(i) ==
    LET parts == pg.entry.features[i].geometry.parts
    IN  IF pg.srs_target # None /\ Val(pg.srs_target) # pg.entry.crs
        THEN [k \in 1..Len(parts) |-> << parts[k][1] + 1, parts[k][2], parts[k][3] + 1, parts[k][4] >>]
        ELSE parts

PointIn(x, y, b) == b[1] <= x /\ x <= b[3] /\ b[2] <= y /\ y <= b[4]

\* The ROI and the geometry have a point in common (one of the points
\* spanned by their corners, if any).
SharesPoint(roi, parts) ==
    \E k \in 1..Len(parts) :
        \E x \in {roi[1], roi[3], parts[k][1], parts[k][3]},
           y \in {roi[2], roi[4], parts[k][2], parts[k][4]} :
            PointIn(x, y, roi) /\ PointIn(x, y, parts[k])

\* Every corner of the geometry lies in the ROI.
Within(roi, parts) ==
    \A k \in 1..Len(parts) :
        \A x \in {parts[k][1], parts[k][3]}, y \in {parts[k][2], parts[k][4]} :
            PointIn(x, y, roi)

C1_Expected(i) ==
    \/ pg.roi = None
    \/ (pg.allow_outlying /\ SharesPoint(Val(pg.roi), C1_Parts(i)))
    \/ (~pg.allow_outlying /\ Within(Val(pg.roi), C1_Parts(i)))

\* C1: the list parse_geojson returns holds exactly the features that the
\* ROI intersects (allow_outlying) or fully contains (not allow_outlying),
\* every feature when there is no ROI, in their original relative order.
C1_KeptFeatures ==
    pg.pc = "returned" =>
        pg.kept_features =
            SelectSeq([i \in 1..Len(pg.entry.features) |-> i], C1_Expected)

\* A returned call in containment mode without clipping that dropped a
\* feature straddling the ROI boundary and kept the other feature.
C1_Witness ==
    /\ pg.pc = "returned" /\ pg.roi # None
    /\ ~pg.allow_outlying /\ ~pg.clip_outlying
    /\ Len(pg.entry.features) = 2
    /\ SharesPoint(Val(pg.roi), C1_Parts(1)) /\ ~Within(Val(pg.roi), C1_Parts(1))
    /\ pg.kept_features = <<2>>

\* The same straddling feature is kept in intersection mode.
C1_WitnessStraddlingKept ==
    /\ pg.pc = "returned" /\ pg.roi # None
    /\ pg.allow_outlying /\ ~pg.clip_outlying
    /\ Len(pg.entry.features) = 2
    /\ SharesPoint(Val(pg.roi), C1_Parts(1)) /\ ~Within(Val(pg.roi), C1_Parts(1))
    /\ ~SharesPoint(Val(pg.roi), C1_Parts(2))
    /\ pg.kept_features = <<1>>

(***************************************************************************)
(* Further claims about the crop window calculator, checked under SpecCrop.*)
(***************************************************************************)
C16_Between(lo, v, hi) == RLeq(lo, v) /\ RLeq(v, hi)

\* The point (x, y) lies in the rectangle spanned by the returned roi_tl
\* and roi_br.
C16_InWindow(x, y) ==
    /\ C16_Between(RMin(crop.out.roi_tl[1], crop.out.roi_br[1]), x,
                   RMax(crop.out.roi_tl[1], crop.out.roi_br[1]))
    /\ C16_Between(RMin(crop.out.roi_tl[2], crop.out.roi_br[2]), y,
                   RMax(crop.out.roi_tl[2], crop.out.roi_br[2]))

C16_Grow == IF crop.roi_buffer = None THEN R(0) ELSE R(Val(crop.roi_buffer))
C16_NoCrop == ~Truthy(crop.crop_img_size) /\ ~Truthy(crop.crop_real_size)

\* C16: with zero skew and pixel sizes of either sign, the window returned
\* by get_feature_roi covers what it is computed from: without a target
\* crop it contains the bounding box of the buffered geometry, and with a
\* fixed pixel crop it contains the centroid of the geometry.
C16_Original ==
    (CropReturned /\ crop.skew = <<0, 0>>) =>
        /\ C16_NoCrop =>
              /\ C16_InWindow(RSub(crop.geom.minx, C16_Grow), RSub(crop.geom.miny, C16_Grow))
              /\ C16_InWindow(RAdd(crop.geom.maxx, C16_Grow), RAdd(crop.geom.maxy, C16_Grow))
        /\ FixedPixelCrop =>
              C16_InWindow(RDiv(RAdd(crop.geom.minx, crop.geom.maxx), R(2)),
                           RDiv(RAdd(crop.geom.miny, crop.geom.maxy), R(2)))

(***************************************************************************)
(* Claims about the raster metadata parser.                                *)
(***************************************************************************)
RECURSIVE C6_RawPaths(_)
C6_RawPaths(paths) ==
    IF paths = <<>> THEN <<>>
    ELSE LET path == Head(paths)
         IN  IF path[Len(path)] = ".reproj.tif" THEN C6_RawPaths(Tail(paths))
             ELSE <<path>> \o C6_RawPaths(Tail(paths))

C6_FilePaths(records) == [i \in 1..Len(records) |-> records[i].file_path]

\* A raster whose processing parse_rasters fails: it cannot be opened, one
\* of its bands is invalid, its SRS is marked unknown and no target was
\* given, or two of its bands have different, known, data types.
C6_Failing(raster, srs_target) ==
    \/ ~raster.openable
    \/ \E i \in 1..Len(raster.bands) : raster.bands[i] = None
    \/ raster.projection = UnknownProjection /\ srs_target = None
    \/ \E i, j \in 1..Len(raster.bands) :
          /\ raster.bands[i] # None /\ raster.bands[j] # None
          /\ Val(raster.bands[i]) # 0 /\ Val(raster.bands[j]) # 0
          /\ raster.bands[i] # raster.bands[j]

C6_Returned(call) ==
    /\ call.result # None /\ call.raised = NoError
    /\ C6_FilePaths(Val(call.result)[1]) = C6_RawPaths(call.raster_paths_arg)
    /\ \A i \in 1..Len(call.raster_paths_arg) :
          LET path == call.raster_paths_arg[i]
          IN  path[Len(path)] # ".reproj.tif" => ~C6_Failing(disk[path], call.srs_target)

C6_Raised(call) ==
    /\ call.result = None /\ call.raised # NoError
    /\ call.idx <= Len(C6_RawPaths(call.raster_paths_arg))
    /\ call.opened = SubSeq(C6_RawPaths(call.raster_paths_arg), 1, call.idx)
    /\ C6_FilePaths(call.rasters_data) = SubSeq(C6_RawPaths(call.raster_paths_arg), 1, call.idx - 1)

\* C6: parse_rasters is all-or-nothing over the batch.  A call that has
\* returned returns one record per input path that does not end in
\* ".reproj.tif", in input order, and none of these rasters is one whose
\* processing fails; a call that has failed returns no records and no
\* coverage, and has opened no path after the failing one.  Until a call
\* ends it has no result.
C6_AllOrNothing ==
    \A p \in Procs :
        /\ pr[p].pc = "returned" => C6_Returned(pr[p])
        /\ pr[p].pc = "raised" => C6_Raised(pr[p])
        /\ pr[p].pc \notin {"returned", "raised"} => pr[p].result = None

\* A call on two rasters fails on the first, after an input path that ends
\* in ".reproj.tif" was set aside.
C6_Witness ==
    /\ pr[1].pc = "raised" /\ pr[1].raised = MixedBandsError
    /\ pr[1].idx = 1 /\ Len(pr[1].raster_paths) = 2 /\ pr[1].opened = << pr[1].raster_paths[1] >>
    /\ pr[1].rasters_data = <<>>

\* A call given a ".reproj.tif" path and a raster returns the record of the
\* raster alone.
C6_WitnessFiltered ==
    /\ pr[1].pc = "returned"
    /\ Len(pr[1].raster_paths_arg) = 2 /\ Len(Val(pr[1].result)[1]) = 1

C7_Records ==
    { <<p, i>> \in Procs \X (1..MaxPaths + 1) : i <= Len(pr[p].rasters_data) }

\* C7: every raster that parse_rasters makes a record of has bands of one
\* data type code, whatever the codes and the code 0 included, and the
\* data_type of the record is that code.
C7_Original ==
    \A r \in C7_Records :
        LET record == pr[r[1]].rasters_data[r[2]]
            bands == disk[record.file_path].bands
        IN  /\ \A i, j \in 1..Len(bands) : bands[i] = bands[j]
            /\ record.data_type = bands[1]

\* C8: every raster that parse_rasters makes a record of, and whose embedded
\* projection is marked unknown or is empty, was parsed with a target SRS,
\* and the SRS of the record is that target.
C8_Original ==
    \A r \in C7_Records :
        LET record == pr[r[1]].rasters_data[r[2]]
        IN  disk[record.file_path].projection \in {UnknownProjection, ""}
                => /\ pr[r[1]].srs_target # None
                   /\ record.srs = Val(pr[r[1]].srs_target)

\* C9: a call of parse_rasters that has returned or failed holds no dataset
\* open, and at most one dataset is held open by a call at any time.
C9_Original ==
    /\ \A p \in Procs : pr[p].pc \in {"returned", "raised"} => pr[p].rasterfile = None
    /\ \A p \in Procs : pr[p].rasterfile # None =>
          pr[p].rasterfile = Some(pr[p].opened[Len(pr[p].opened)])

C10_Reprojected(call, srs) ==
    call.reproj /\ call.srs_target # None /\ Val(call.srs_target) # srs

C10_State ==
    /\ \A o \in OutputPaths : writes[o] <= 1 /\ (writes[o] = 1 => o \in files)
    /\ clobbered = {}
    /\ \A p \in Procs :
          pr[p].pc = "warp" =>
              /\ C10_Reprojected(pr[p], pr[p].raster_curr_srs)
              /\ pr[p].reproj_path = Some(pr[p].raster_paths[pr[p].idx] \o <<".reproj.tif">>)
              /\ Val(pr[p].reproj_path) \notin files
    /\ \A r \in C7_Records :
          LET record == pr[r[1]].rasters_data[r[2]]
          IN  IF C10_Reprojected(pr[r[1]], record.srs)
              THEN /\ record.reproj_path = Some(record.file_path \o <<".reproj.tif">>)
                   /\ \/ Val(record.reproj_path) \in files
                      \/ Val(record.reproj_path) \in pr[r[1]].warped
              ELSE record.reproj_path = None

C10_Step ==
    /\ files \subseteq files'
    /\ \A o \in OutputPaths :
          writes'[o] # writes[o] =>
              /\ writes[o] = 0 /\ writes'[o] = 1 /\ o \notin files
              /\ \E p \in Procs : pr[p].pc = "warp" /\ pr[p].reproj_path = Some(o)

\* C10: over any sequence of calls of parse_rasters, a reprojected raster
\* is written only by a call that was asked to reproject, for a raster
\* whose SRS differs from the target, when no file exists at the output
\* path "<path>.reproj.tif"; each output path is written at most once, a
\* file that exists is never written again, and every record of a
\* reprojected raster reports that path, written by this call or not; the
\* file reported exists unless the warp of this very call failed.
C10_ExistenceChecked == []C10_State /\ [][C10_Step]_vars

\* A call returns the record of a raster whose reprojection an earlier call
\* wrote: it reports the path and has written nothing.
C10_Witness ==
    /\ pr[1].pc = "returned" /\ pr[1].warped = {}
    /\ \E i \in 1..Len(pr[1].rasters_data) :
          /\ pr[1].rasters_data[i].reproj_path # None
          /\ writes[Val(pr[1].rasters_data[i].reproj_path)] = 1

(***************************************************************************)
(* Claims about concurrent calls of the raster metadata parser, checked    *)
(* under SpecConcurrent.                                                   *)
(***************************************************************************)
C11_WrittenTwice(o) == writes[o] > 1 \/ o \in clobbered

\* C11: the reprojection write is not safe for two concurrent writers of
\* one output path.  Two concurrent calls on the same raster can both find
\* no file at "<path>.reproj.tif" and both write it (C11_Witness is such a
\* state); an output path is written twice, or over an existing file, only
\* by callers that do not serialize their calls per output path, and then
\* by two calls that were both between the existence check and the write.
C11_UnsafeUnlessSerialized ==
    /\ \A o \in OutputPaths :
          C11_WrittenTwice(o) => \A p \in Procs : ~pr[p].serialized
    /\ (\A p \in Procs : pr[p].serialized) =>
          \A p, q \in Procs :
              (p # q /\ Running(p) /\ Running(q)) => PathsOf(pr[p]) \cap PathsOf(pr[q]) = {}
    /\ \A o \in OutputPaths : writes[o] <= Cardinality(Procs)

\* Both callers passed the raster "a.tif" with reprojection and both have
\* written "a.tif.reproj.tif", the second over the file of the first.
C11_Witness ==
    LET o == <<"a.tif", ".reproj.tif">>
    IN  /\ writes[o] = 2 /\ o \in clobbered
        /\ \A p \in Procs :
              /\ pr[p].raster_paths = << <<"a.tif">> >> /\ pr[p].reproj
              /\ pr[p].warped = {o}

\* Two callers that serialize have each, one after the other, parsed the
\* raster "a.tif" with reprojection: one write.
C11_WitnessSerialized ==
    LET o == <<"a.tif", ".reproj.tif">>
    IN  /\ writes[o] = 1 /\ pr[1].serialized
        /\ pr[1].pc = "returned" /\ pr[1].warped = {o}
        /\ pr[2].pc = "returned" /\ pr[2].warped = {}
        /\ pr[2].rasters_data[1].reproj_path = Some(o)

(***************************************************************************)
(* Further claims about the feature parser, checked under SpecFeatures.    *)
(***************************************************************************)
\* C12: parse_geojson leaves the collection it is given as it found it,
\* when it returns and when it fails, and a second call on the same
\* collection with the same arguments does not fail on geometries that the
\* first call has replaced.
C12_Original ==
    /\ pg.pc \in {"returned", "raised"} => geojson = pg.entry
    /\ pg.calls > 1 => pg.raised # SubscriptError

C15_Meet(roi, b) ==
    << IF roi[1] >= b[1] THEN roi[1] ELSE b[1], IF roi[2] >= b[2] THEN roi[2] ELSE b[2],
       IF roi[3] <= b[3] THEN roi[3] ELSE b[3], IF roi[4] <= b[4] THEN roi[4] ELSE b[4] >>
C15_Some(b) == b[1] <= b[3] /\ b[2] <= b[4]
C15_Area(b) == b[1] < b[3] /\ b[2] < b[4]

\* What the ROI and feature i, as the call found it, have in common: one
\* piece per part of the feature that reaches the ROI.
C15_Pieces(i) ==
    LET parts == C1_Parts(i)
    IN  SelectSeq([k \in 1..Len(parts) |-> C15_Meet(Val(pg.roi), parts[k])], C15_Some)

C15_AllArea(pieces) == \A k \in 1..Len(pieces) : C15_Area(pieces[k])

C15_KeptClipped(i) ==
    LET feature == geojson.features[i]
    IN  /\ feature.geometry.parts = C15_Pieces(i)
        /\ Within(Val(pg.roi), feature.geometry.parts)
        /\ C15_AllArea(feature.geometry.parts)
        /\ feature.geometry.type = (IF Len(C15_Pieces(i)) = 1 THEN "Polygon" ELSE "MultiPolygon")
        /\ feature.type = feature.geometry.type
        /\ Within(Val(pg.roi), C1_Parts(i)) => feature.geometry.parts = C1_Parts(i)

\* C15: with an ROI and clip_outlying set, the geometry of every feature
\* kept is the intersection of the ROI with the geometry the feature came
\* with: it lies within the ROI, is a Polygon or a MultiPolygon, and equals
\* the original geometry when the ROI contains the feature.  The call fails
\* with the clip error exactly on a feature that passes the ROI test and
\* whose intersection with the ROI has a piece without area (a segment or
\* a point); a call that returns has met no such feature.
C15_Clipping ==
    (pg.roi # None /\ pg.clip_outlying) =>
        /\ \A k \in 1..Len(pg.kept_features) : C15_KeptClipped(pg.kept_features[k])
        /\ pg.raised = ClipTypeError =>
              C1_Expected(pg.idx) /\ ~C15_AllArea(C15_Pieces(pg.idx))
        /\ pg.pc = "returned" =>
              \A i \in 1..Len(pg.entry.features) :
                  C1_Expected(i) => C15_AllArea(C15_Pieces(i))

\* A returned call in intersection mode with clipping kept a feature that
\* straddles the ROI boundary, cut down to the part inside the ROI, and a
\* feature inside the ROI, left as it came.
C15_Witness ==
    /\ pg.pc = "returned" /\ pg.roi # None /\ pg.allow_outlying /\ pg.clip_outlying
    /\ pg.kept_features = <<1, 2>>
    /\ ~Within(Val(pg.roi), C1_Parts(1))
    /\ geojson.features[1].geometry.parts # C1_Parts(1)
    /\ Within(Val(pg.roi), geojson.features[1].geometry.parts)
    /\ Within(Val(pg.roi), C1_Parts(2))
    /\ geojson.features[2].geometry.parts = C1_Parts(2)

\* A call in intersection mode with clipping failed on a feature that only
\* touches the ROI.
C15_WitnessTouching ==
    /\ pg.pc = "raised" /\ pg.raised = ClipTypeError /\ pg.allow_outlying
    /\ Len(C1_Parts(pg.idx)) = 1 /\ ~C15_Area(C15_Pieces(pg.idx)[1])

(***************************************************************************)
(* Claims about get_feature_bbox, checked under SpecBbox.                  *)
(***************************************************************************)
C13_Natural(geom) == << <<geom.minx, geom.miny>>, <<geom.maxx, geom.maxy>> >>

C13_Centred(geom, dx, dy) ==
    LET cx == RDiv(RAdd(geom.minx, geom.maxx), R(2))
        cy == RDiv(RAdd(geom.miny, geom.maxy), R(2))
    IN  << <<RSub(cx, dx), RSub(cy, dy)>>, <<RAdd(cx, dx), RAdd(cy, dy)>> >>

\* C13: get_feature_bbox fails with the offset error for every offsets
\* given that has not exactly 2 elements (0, 1, 3 or more); with offsets
\* None it returns the natural bounding box of the geometry, and with 2
\* offsets the box of these half-widths centred on the centroid.
C13_Original ==
    crop.pc = "done" =>
        IF crop.offsets = None
        THEN crop.out.raised = NoError /\ <<crop.out.tl, crop.out.br>> = C13_Natural(crop.geom)
        ELSE IF Len(crop.offsets[1]) = 2
        THEN /\ crop.out.raised = NoError
             /\ <<crop.out.tl, crop.out.br>>
                    = C13_Centred(crop.geom, crop.offsets[1][1], crop.offsets[1][2])
        ELSE crop.out.raised = OffsetError

(***************************************************************************)
(* Claims about the Regression task, checked under SpecRegression.         *)
(***************************************************************************)
C14_AllInts(value) == \A i \in 1..Len(value.items) : value.items[i][1] = "int"

\* C14: assigning target_shape, at construction or later, a list of
\* integers stores the tuple of exactly those integers; assigning a tuple
\* of integers stores it unchanged and assigning None stores None.
C14_Original ==
    (task.op = "target_shape" /\ task.arg.kind \in {"list", "tuple", "none"}
        /\ C14_AllInts(task.arg))
    => /\ task.raised = NoError
       /\ task.target_shape.kind = (IF task.arg.kind = "none" THEN "none" ELSE "tuple")
       /\ task.target_shape.items = task.arg.items

====
